---- MODULE Spec2Model ----
(***************************************************************************)
(* Model of the document-store gateway (FirestoreService), the persistence *)
(* step of ItineraryService and the session -> user migration of the       *)
(* synapse-backend trip planner, followed by the adjustment agent          *)
(* (SmartAdjustAgent), the generation pipeline (generate_itinerary) and    *)
(* the plan_trip handler.                                                  *)
(*                                                                         *)
(* Time is counted in whole hours.  firestore.SERVER_TIMESTAMP and         *)
(* FirestoreService._now() are read from the same clock, `now`.            *)
(* Identifiers produced by _new_id (uuid4 based) are modelled as fresh:    *)
(* a counter hands out an id that was never handed out before.             *)
(* A Python dict is a function from field names to values; a missing key   *)
(* is a field name outside the DOMAIN.                                     *)
(***************************************************************************)
EXTENDS Integers, Sequences, FiniteSets, TLC

\* ------------------------------------------------------------------ bounds
MaxTime == 5
ShortTime == 1
MaxSessions == 1
MaxDocs == 4
FewDocs == 2
OneDoc == 1
MaxTasks == 2
MaxConcDocs == 6
MaxContent == 4
MaxGenContent == 3
MaxActivities == 2

\* --------------------------------------------------------------- constants
\* timedelta(hours=4) of create_session and touch_session
TTL == 4

\* Field(..., ge/le, min_length/max_length) of PlanTripRequest and the range
\* test of validate_preferences
DestMinLen == 2
DestMaxLen == 100
DaysMin == 1
DaysMax == 30
PrefMin == 0
PrefMax == 100

None == "None"
UserIds == {"u1", "u2"}
SessionIds == 1..MaxSessions
ItinIds == 1..MaxDocs
TaskIds == 1..MaxTasks

\* What a client can send as geo_hint / preferences of a session.
GeoHints == {None, "IN"}

\* Values a client may put in a payload's own itineraryId / createdAt keys;
\* the store itself never produces them.
ForeignId == MaxDocs + 1
ForeignTime == MaxTime + 1

\* Itinerary payloads handed to the gateway: the itinerary content, with or
\* without itineraryId and createdAt keys of the caller's own.
Payloads ==
    { [body |-> "A"],
      [body |-> "B", itineraryId |-> ForeignId, createdAt |-> ForeignTime] }

\* Messages of the exceptions the store client can raise, as the fragments
\* the substring tests of ItineraryService.save_itinerary look for.
NoFault == <<>>
FaultMessages ==
    { <<"Your default ", "Credentials", " were not found">>,
      <<"503 ", "Deadline Exceeded">> }

VARIABLES
    now,        \* the clock
    sessions,   \* sessions/{sid}: the session documents that exist
    sessItins,  \* sessions/{sid}/itineraries/{id}
    userItins,  \* users/{uid}/itineraries/{id}
    nextId,     \* the next itinerary id _new_id("it") hands out
    nextSess,   \* the next session id _new_id("sess") hands out
    using_mock, \* ItineraryService.using_mock
    last,       \* what the most recently completed call returned or raised
    tasks,      \* migrations in flight, one per request being served
    adjust,     \* the SmartAdjustAgent.adjust_itinerary call being observed
    plan        \* the plan_trip request being observed

vars ==
    <<now, sessions, sessItins, userItins, nextId, nextSess, using_mock, last, tasks,
      adjust, plan>>

store == <<sessions, sessItins, userItins>>

\* ----------------------------------------------------------------- helpers
\* Python truthiness of an optional user id (None) / session id (0 stands
\* for the None a caller passes when it has no session).
TruthyUser(x) == x # None

TruthySession(x) == x # 0

\* str in str, on the fragments a message is made of
Lower(frag) ==
    CASE frag = "Credentials" -> "credentials"
      [] frag = "Deadline Exceeded" -> "deadline exceeded"
      [] OTHER -> frag

Contains(msg, frag) == \E i \in 1..Len(msg) : msg[i] = frag

ContainsLower(msg, frag) == \E i \in 1..Len(msg) : Lower(msg[i]) = frag

\* What a call returned (ok) or raised (~ok): the itinerary id returned and its
\* kind ("real": written to the store, "mock": a placeholder), the
\* itineraryCount of a migration, and the reason / message given.
NoResult ==
    [op |-> "none", ok |-> TRUE, id |-> 0, kind |-> "none", migrated |-> FALSE,
     count |-> 0, reason |-> ""]

Result(op, ok, id, kind, count, reason) ==
    [op |-> op, ok |-> ok, id |-> id, kind |-> kind, migrated |-> FALSE,
     count |-> count, reason |-> reason]

\* The dict migrate_session_to_user returns: {"migrated", "itineraryCount"}
\* or {"migrated", "reason"}.
MigrationResult(migrated, count, reason) ==
    [op |-> "migrate_session_to_user", ok |-> TRUE, id |-> 0, kind |-> "none",
     migrated |-> migrated, count |-> count, reason |-> reason]

IdleTask == [pc |-> "idle"]

\* No adjust_itinerary call / no plan_trip request has been made yet.
NoAdjust == [pc |-> "idle"]

NoPlan == [pc |-> "idle"]

\* Number of itinerary documents in the store (the model holds at most
\* MaxDocs of them).
TotalDocs ==
    Cardinality({k \in SessionIds \X ItinIds : k[2] \in DOMAIN sessItins[k[1]]})
        + Cardinality({k \in UserIds \X ItinIds : k[2] \in DOMAIN userItins[k[1]]})

Room(n) == TotalDocs + n <= MaxDocs

\* A narrower bound on the documents, for the specifications that explore
\* the whole clock: a call that would add a document (adds) is taken only
\* while fewer than k exist; a call that writes nothing is always taken.
Fits(k, adds) == adds => TotalDocs < k

\* is_session_valid with the comparison of expiresAt and the clock made
\* non-strict (a session is refused in the very hour it expires).
IsSessionValid_Early(s) ==
    IF s \notin DOMAIN sessions THEN <<FALSE, "Session does not exist">>
    ELSE IF "expiresAt" \notin DOMAIN sessions[s]
        THEN <<FALSE, "Session has no expiration date">>
    ELSE IF sessions[s].expiresAt <= now THEN <<FALSE, "Session has expired">>
    ELSE <<TRUE, "Session is valid">>

\* FirestoreService.is_session_valid: <<is_valid, reason>>
IsSessionValid(s) ==
    IF s \notin DOMAIN sessions THEN <<FALSE, "Session does not exist">>
    ELSE IF "expiresAt" \notin DOMAIN sessions[s]
        THEN <<FALSE, "Session has no expiration date">>
    ELSE IF sessions[s].expiresAt < now THEN <<FALSE, "Session has expired">>
    ELSE <<TRUE, "Session is valid">>

\* The saved document with the payload's own keys left in place: an
\* itineraryId, createdAt or updatedAt the payload carries is stored.
SavedDoc_PayloadWins(itinerary, itin_id) ==
    itinerary @@ [itineraryId |-> itin_id, createdAt |-> now, updatedAt |-> now]

\* The document save_itinerary_for_user / _for_session writes.
SavedDoc(itinerary, itin_id) ==
    [itineraryId |-> itin_id, createdAt |-> now, updatedAt |-> now] @@ itinerary

\* The replaced document with the dict built the other way round: the keys
\* of the payload override itineraryId, createdAt and updatedAt.
ReplacedDoc_PayloadWins(col, itinerary_id, itinerary_data) ==
    LET created_at == IF itinerary_id \in DOMAIN col
                      THEN col[itinerary_id].createdAt
                      ELSE now
    IN itinerary_data
           @@ [itineraryId |-> itinerary_id, createdAt |-> created_at, updatedAt |-> now]

\* The document replace_itinerary_for_user / _for_session writes over
\* `col[itinerary_id]` (col is the owner's itineraries sub-collection).
ReplacedDoc(col, itinerary_id, itinerary_data) ==
    LET created_at == IF itinerary_id \in DOMAIN col
                      THEN col[itinerary_id].createdAt
                      ELSE now
    IN [itineraryId |-> itinerary_id, createdAt |-> created_at, updatedAt |-> now]
           @@ itinerary_data

\* The copy migrate_session_to_user writes under the user.
MigratedCopy(data, new_id, session_id) ==
    [itineraryId |-> new_id, migratedFromSession |-> session_id, migratedAt |-> now]
        @@ data

\* The mark written without merge=True: the document is overwritten.
MarkedSession_NoMerge(sess, uid) ==
    [migratedTo |-> uid, migratedAt |-> now]

\* session_ref.set({...}, merge=True) at the end of a migration
MarkedSession(sess, uid) ==
    [migratedTo |-> uid, migratedAt |-> now] @@ sess

\* ------------------------------------------------------------------- Init
Init ==
    /\ now = 0
    /\ sessions = <<>>
    /\ sessItins = [s \in SessionIds |-> <<>>]
    /\ userItins = [u \in UserIds |-> <<>>]
    /\ nextId = 1
    /\ nextSess = 1
    /\ using_mock = FALSE
    /\ last = NoResult
    /\ tasks = [t \in TaskIds |-> IdleTask]
    /\ adjust = NoAdjust
    /\ plan = NoPlan

\* ItineraryService.__init__ sets using_mock from the environment
\* (GOOGLE_CLOUD_PROJECT set or not).
InitService ==
    /\ now = 0
    /\ sessions = <<>>
    /\ sessItins = [s \in SessionIds |-> <<>>]
    /\ userItins = [u \in UserIds |-> <<>>]
    /\ nextId = 1
    /\ nextSess = 1
    /\ using_mock \in BOOLEAN
    /\ last = NoResult
    /\ tasks = [t \in TaskIds |-> IdleTask]
    /\ adjust = NoAdjust
    /\ plan = NoPlan

\* The clock advances (the model stops it at `horizon`).
Tick(horizon) ==
    /\ now < horizon
    /\ now' = now + 1
    /\ UNCHANGED <<sessions, sessItins, userItins, nextId, nextSess, using_mock, adjust, plan, last, tasks>>

\* FirestoreService.create_session
CreateSession(geo_hint) ==
    /\ nextSess <= MaxSessions
    /\ LET sid == nextSess IN
        /\ sessions' = (sid :> [sessionId |-> sid, createdAt |-> now, lastSeen |-> now,
                                expiresAt |-> now + TTL, geoHint |-> geo_hint,
                                preferences |-> "{}", migratedTo |-> None])
                            @@ sessions
        /\ last' = Result("create_session", TRUE, sid, "none", 0, "")
    /\ nextSess' = nextSess + 1
    /\ UNCHANGED <<now, sessItins, userItins, nextId, using_mock, adjust, plan, tasks>>

\* update_data of touch_session with the new expiry counted from the old one
\* instead of from the clock.
TouchedSession_FromOldExpiry(sess, extend_expiry) ==
    IF extend_expiry
    THEN [lastSeen |-> now, expiresAt |-> sess.expiresAt + TTL] @@ sess
    ELSE [lastSeen |-> now] @@ sess

\* The session document after the update() of touch_session.
TouchedSession(sess, extend_expiry) ==
    IF extend_expiry
    THEN [lastSeen |-> now, expiresAt |-> now + TTL] @@ sess
    ELSE [lastSeen |-> now] @@ sess

\* touch_session without its validity check: any session that exists is
\* updated.
TouchSession_Unchecked(s, extend_expiry) ==
    /\ IF s \notin DOMAIN sessions
       THEN /\ last' = Result("touch_session", FALSE, 0, "none", 0, "Session does not exist")
            /\ UNCHANGED sessions
       ELSE /\ sessions' = [sessions EXCEPT ![s] = TouchedSession(@, extend_expiry)]
            /\ last' = Result("touch_session", TRUE, 0, "none", 0, "")
    /\ UNCHANGED <<now, sessItins, userItins, nextId, nextSess, using_mock, adjust, plan, tasks>>

\* FirestoreService.touch_session
TouchSession(s, extend_expiry) ==
    /\ LET v == IsSessionValid(s) IN
        IF ~v[1]
        THEN /\ last' = Result("touch_session", FALSE, 0, "none", 0, v[2])
             /\ UNCHANGED sessions
        ELSE /\ sessions' = [sessions EXCEPT ![s] = TouchedSession(@, extend_expiry)]
             /\ last' = Result("touch_session", TRUE, 0, "none", 0, "")
    /\ UNCHANGED <<now, sessItins, userItins, nextId, nextSess, using_mock, adjust, plan, tasks>>

\* FirestoreService.save_itinerary_for_user
SaveItineraryForUser(uid, itinerary) ==
    /\ Room(1)
    /\ userItins' = [userItins EXCEPT ![uid] = (nextId :> SavedDoc(itinerary, nextId)) @@ @]
    /\ last' = Result("save_itinerary_for_user", TRUE, nextId, "real", 0, "")
    /\ nextId' = nextId + 1
    /\ UNCHANGED <<now, sessions, sessItins, nextSess, using_mock, adjust, plan, tasks>>

\* The sub-collection of a session after save_itinerary_for_session passed
\* its validity check.
SessionColAfterSave(col, itinerary, itin_id) ==
    (itin_id :> SavedDoc(itinerary, itin_id)) @@ col

\* FirestoreService.save_itinerary_for_session: the validity check raises
\* before anything is written (the id drawn before the check is then never
\* used, so the counter keeps it).
SaveItineraryForSession(session_id, itinerary) ==
    /\ LET v == IsSessionValid(session_id) IN
        IF ~v[1]
        THEN /\ last' = Result("save_itinerary_for_session", FALSE, 0, "none", 0, v[2])
             /\ UNCHANGED <<sessItins, nextId>>
        ELSE /\ Room(1)
             /\ sessItins' = [sessItins EXCEPT ![session_id] =
                                 SessionColAfterSave(@, itinerary, nextId)]
             /\ last' = Result("save_itinerary_for_session", TRUE, nextId, "real", 0, "")
             /\ nextId' = nextId + 1
    /\ UNCHANGED <<now, sessions, userItins, nextSess, using_mock, adjust, plan, tasks>>

\* Itinerary ids a caller can name: the ones the store has handed out.
KnownIds == 1..(nextId - 1)

\* FirestoreService.replace_itinerary_for_user
ReplaceItineraryForUser(uid, itinerary_id, itinerary_data) ==
    /\ itinerary_id \in KnownIds
    /\ itinerary_id \in DOMAIN userItins[uid] \/ Room(1)
    /\ userItins' = [userItins EXCEPT ![uid] =
            (itinerary_id :> ReplacedDoc(@, itinerary_id, itinerary_data)) @@ @]
    /\ last' = Result("replace_itinerary_for_user", TRUE, itinerary_id, "real", 0, "")
    /\ UNCHANGED <<now, sessions, sessItins, nextId, nextSess, using_mock, adjust, plan, tasks>>

\* FirestoreService.replace_itinerary_for_session
ReplaceItineraryForSession(session_id, itinerary_id, itinerary_data) ==
    /\ itinerary_id \in KnownIds
    /\ itinerary_id \in DOMAIN sessItins[session_id] \/ Room(1)
    /\ sessItins' = [sessItins EXCEPT ![session_id] =
            (itinerary_id :> ReplacedDoc(@, itinerary_id, itinerary_data)) @@ @]
    /\ last' = Result("replace_itinerary_for_session", TRUE, itinerary_id, "real", 0, "")
    /\ UNCHANGED <<now, sessions, userItins, nextId, nextSess, using_mock, adjust, plan, tasks>>

\* ------------------------------------------------------------- migration
\* Position of x in the ascending order of S (the order stream() yields the
\* documents of a sub-collection in), counted from 0.
Rank(S, x) == Cardinality({y \in S : y < x})

\* The copies stored under the ids the documents have under the session.
UserColAfterMigration_KeepIds(col, itineraries, session_id, first_id) ==
    [x \in DOMAIN itineraries |-> MigratedCopy(itineraries[x], x, session_id)] @@ col

\* The sub-collection of user uid after the loop of migrate_session_to_user
\* copied every document of `itineraries` (what stream() returned), the
\* k-th of them under the k-th id drawn from first_id on.
UserColAfterMigration(col, itineraries, session_id, first_id) ==
    LET src == DOMAIN itineraries
        new_id(x) == first_id + Rank(src, x)
        origin(n) == CHOOSE x \in src : new_id(x) = n
    IN [n \in {new_id(x) : x \in src} |->
            MigratedCopy(itineraries[origin(n)], n, session_id)] @@ col

\* The guard refusing a session that is already marked as migrated.
MigrationFinds_Once(session_id) ==
    /\ session_id \in DOMAIN sessions
    /\ sessions[session_id].migratedTo = None

\* The guard left out: a missing session is migrated like an empty one.
MigrationFinds_Always(session_id) == TRUE

\* The guard on the session document at the head of migrate_session_to_user.
MigrationFinds(session_id) == session_id \in DOMAIN sessions

\* A migration that moves the documents: the session's originals are deleted
\* once copied.
MigrateSessionToUser_Move(session_id, uid) ==
    IF ~MigrationFinds(session_id)
    THEN /\ last' = MigrationResult(FALSE, 0, "session not found")
         /\ UNCHANGED <<now, sessions, sessItins, userItins, nextId, nextSess, using_mock, adjust, plan, tasks>>
    ELSE LET itineraries == sessItins[session_id]
             n == Cardinality(DOMAIN itineraries)
         IN /\ Room(n)
            /\ userItins' = [userItins EXCEPT ![uid] =
                    UserColAfterMigration(@, itineraries, session_id, nextId)]
            /\ sessItins' = [sessItins EXCEPT ![session_id] = <<>>]
            /\ sessions' = [sessions EXCEPT ![session_id] = MarkedSession(@, uid)]
            /\ nextId' = nextId + n
            /\ last' = MigrationResult(TRUE, n, "")
            /\ UNCHANGED <<now, nextSess, using_mock, adjust, plan, tasks>>

\* FirestoreService.migrate_session_to_user, run without interruption.
MigrateSessionToUser(session_id, uid) ==
    IF ~MigrationFinds(session_id)
    THEN /\ last' = MigrationResult(FALSE, 0, "session not found")
         /\ UNCHANGED <<now, sessions, sessItins, userItins, nextId, nextSess, using_mock, adjust, plan, tasks>>
    ELSE LET itineraries == sessItins[session_id]
             n == Cardinality(DOMAIN itineraries)
         IN /\ Room(n)
            /\ userItins' = [userItins EXCEPT ![uid] =
                    UserColAfterMigration(@, itineraries, session_id, nextId)]
            /\ sessions' = [sessions EXCEPT ![session_id] = MarkedSession(@, uid)]
            /\ nextId' = nextId + n
            /\ last' = MigrationResult(TRUE, n, "")
            /\ UNCHANGED <<now, sessItins, nextSess, using_mock, adjust, plan, tasks>>

\* ------------------------------------------- migrations served concurrently
\* Each request runs migrate_session_to_user call by call on the store, so
\* the calls of two requests interleave.  A task holds the locals of one
\* request: session_snap, itineraries (what stream() answered), the documents
\* still to copy and migrated_ids; once the call has returned, its result.

\* session_ref.get() and the guard on it.
MigrateBegin(t, session_id, uid) ==
    /\ tasks[t].pc = "idle"
    /\ LET session_snap == IF session_id \in DOMAIN sessions
                           THEN sessions[session_id] ELSE <<>>
       IN IF MigrationFinds(session_id)
          THEN /\ tasks' = [tasks EXCEPT ![t] =
                       [pc |-> "stream", sid |-> session_id, uid |-> uid,
                        session_snap |-> session_snap]]
               /\ UNCHANGED last
          ELSE /\ tasks' = [tasks EXCEPT ![t] =
                       [pc |-> "done", sid |-> session_id, uid |-> uid,
                        session_snap |-> session_snap, itineraries |-> <<>>,
                        migrated_ids |-> <<>>,
                        result |-> MigrationResult(FALSE, 0, "session not found")]]
               /\ last' = MigrationResult(FALSE, 0, "session not found")
    /\ UNCHANGED <<now, sessions, sessItins, userItins, nextId, nextSess, using_mock, adjust, plan>>

\* The query on the session's itineraries, answered when the loop starts.
MigrateStream(t) ==
    /\ tasks[t].pc = "stream"
    /\ tasks' = [tasks EXCEPT ![t] =
            [pc |-> "copy", sid |-> @.sid, uid |-> @.uid, session_snap |-> @.session_snap,
             itineraries |-> sessItins[@.sid], pending |-> DOMAIN sessItins[@.sid],
             migrated_ids |-> <<>>]]
    /\ UNCHANGED <<now, sessions, sessItins, userItins, nextId, nextSess, using_mock, adjust, plan, last>>

\* One turn of the loop: the next document is copied under a new id.
MigrateCopy(t) ==
    /\ tasks[t].pc = "copy"
    /\ tasks[t].pending # {}
    /\ TotalDocs < MaxConcDocs
    /\ LET x == CHOOSE y \in tasks[t].pending : \A z \in tasks[t].pending : y <= z
           new_id == nextId
       IN /\ userItins' = [userItins EXCEPT ![tasks[t].uid] =
                  (new_id :> MigratedCopy(tasks[t].itineraries[x], new_id, tasks[t].sid)) @@ @]
          /\ tasks' = [tasks EXCEPT ![t].pending = @ \ {x},
                                    ![t].migrated_ids = Append(@, new_id)]
    /\ nextId' = nextId + 1
    /\ UNCHANGED <<now, sessions, sessItins, nextSess, using_mock, adjust, plan, last>>

\* After the loop: the session is marked and the call returns.
MigrateMark(t) ==
    /\ tasks[t].pc = "copy"
    /\ tasks[t].pending = {}
    /\ sessions' = [sessions EXCEPT ![tasks[t].sid] = MarkedSession(@, tasks[t].uid)]
    /\ LET result == MigrationResult(TRUE, Len(tasks[t].migrated_ids), "")
       IN /\ tasks' = [tasks EXCEPT ![t] =
                  [pc |-> "done", sid |-> @.sid, uid |-> @.uid,
                   session_snap |-> @.session_snap, itineraries |-> @.itineraries,
                   migrated_ids |-> @.migrated_ids, result |-> result]]
          /\ last' = result
    /\ UNCHANGED <<now, sessItins, userItins, nextId, nextSess, using_mock, adjust, plan>>

\* --------------------------------------------- ItineraryService.save_itinerary
\* The try block of save_itinerary with the two tests in the other order: a
\* session id, when given, decides the owner.
TryOutcome_SessionFirst(user_id, session_id, fault) ==
    IF TruthySession(session_id)
    THEN IF fault # NoFault
         THEN <<"raised", <<"Cannot save itinerary: ", "Error checking session: ">> \o fault>>
         ELSE IF IsSessionValid(session_id)[1]
              THEN <<"returned", "session">>
              ELSE <<"raised", <<"Cannot save itinerary: ", IsSessionValid(session_id)[2]>>>>
    ELSE IF TruthyUser(user_id)
    THEN IF fault = NoFault THEN <<"returned", "user">> ELSE <<"raised", fault>>
    ELSE <<"raised", <<"Either user_id or session_id must be provided">>>>

\* What the try block of ItineraryService.save_itinerary ends with:
\* <<"returned", owner>> or <<"raised", message>>.  `fault` is the message of
\* the exception the store client raises on the calls of this request
\* (NoFault: the store answers).
TryOutcome(user_id, session_id, fault) ==
    IF TruthyUser(user_id)
    THEN IF fault = NoFault THEN <<"returned", "user">> ELSE <<"raised", fault>>
    ELSE IF TruthySession(session_id)
    THEN IF fault # NoFault
         THEN <<"raised", <<"Cannot save itinerary: ", "Error checking session: ">> \o fault>>
         ELSE IF IsSessionValid(session_id)[1]
              THEN <<"returned", "session">>
              ELSE <<"raised", <<"Cannot save itinerary: ", IsSessionValid(session_id)[2]>>>>
    ELSE <<"raised", <<"Either user_id or session_id must be provided">>>>

\* The test of the except block that decides between a mock id and re-raising.
ReturnsMockId(msg) ==
    using_mock \/ Contains(msg, "No module named") \/ ContainsLower(msg, "credentials")

\* ItineraryService.save_itinerary
SvcSaveItinerary(user_id, session_id, itinerary_data, fault) ==
    LET out == TryOutcome(user_id, session_id, fault) IN
    /\ IF out[1] = "returned"
       THEN /\ Room(1)
            /\ IF out[2] = "user"
               THEN /\ userItins' = [userItins EXCEPT ![user_id] =
                            (nextId :> SavedDoc(itinerary_data, nextId)) @@ @]
                    /\ UNCHANGED sessItins
               ELSE /\ sessItins' = [sessItins EXCEPT ![session_id] =
                            SessionColAfterSave(@, itinerary_data, nextId)]
                    /\ UNCHANGED userItins
            /\ nextId' = nextId + 1
            /\ last' = Result("save_itinerary", TRUE, nextId, "real", 0, "")
       ELSE /\ last' = IF ReturnsMockId(out[2])
                       THEN Result("save_itinerary", TRUE, 0, "mock", 0, "")
                       ELSE Result("save_itinerary", FALSE, 0, "none", 0, "")
            /\ UNCHANGED <<sessItins, userItins, nextId>>
    /\ UNCHANGED <<now, sessions, nextSess, using_mock, adjust, plan, tasks>>

\* ------------------------------------------------------------------- Next
\* Session expiry: the calls that set or read a session's expiresAt.
NextTTL ==
    \/ Tick(MaxTime)
    \/ \E g \in GeoHints : CreateSession(g)
    \/ \E s \in SessionIds, e \in BOOLEAN : TouchSession(s, e)
    \/ \E s \in SessionIds, p \in Payloads :
          Fits(OneDoc, IsSessionValid(s)[1]) /\ SaveItineraryForSession(s, p)
    \/ \E s \in SessionIds, u \in UserIds :
          Fits(FewDocs, sessItins[s] # <<>>) /\ MigrateSessionToUser(s, u)

SpecTTL == Init /\ [][NextTTL]_vars

\* Itinerary writes under a session.
NextWrites ==
    \/ Tick(MaxTime)
    \/ \E g \in GeoHints : CreateSession(g)
    \/ \E s \in SessionIds, p \in Payloads :
          Fits(OneDoc, IsSessionValid(s)[1]) /\ SaveItineraryForSession(s, p)
    \/ \E s \in SessionIds, i \in ItinIds, p \in Payloads :
          Fits(OneDoc, i \notin DOMAIN sessItins[s]) /\ ReplaceItineraryForSession(s, i, p)

SpecWrites == Init /\ [][NextWrites]_vars

\* The persistence step of the generation service.
NextSvc ==
    \/ Tick(MaxTime)
    \/ \E g \in GeoHints : CreateSession(g)
    \/ \E u \in UserIds \cup {None}, s \in SessionIds \cup {0}, p \in Payloads,
          f \in FaultMessages \cup {NoFault} :
          Fits(OneDoc, TryOutcome(u, s, f)[1] = "returned") /\ SvcSaveItinerary(u, s, p, f)

SpecSvc == InitService /\ [][NextSvc]_vars

\* Save and replace of itinerary documents.
NextReplace ==
    \/ Tick(ShortTime)
    \/ \E g \in GeoHints : CreateSession(g)
    \/ \E u \in UserIds, p \in Payloads : Fits(FewDocs, TRUE) /\ SaveItineraryForUser(u, p)
    \/ \E s \in SessionIds, p \in Payloads :
          Fits(FewDocs, IsSessionValid(s)[1]) /\ SaveItineraryForSession(s, p)
    \/ \E u \in UserIds, i \in ItinIds, p \in Payloads :
          Fits(FewDocs, i \notin DOMAIN userItins[u]) /\ ReplaceItineraryForUser(u, i, p)
    \/ \E s \in SessionIds, i \in ItinIds, p \in Payloads :
          Fits(FewDocs, i \notin DOMAIN sessItins[s]) /\ ReplaceItineraryForSession(s, i, p)

SpecReplace == Init /\ [][NextReplace]_vars

\* Migration of a session's itineraries to a user.
NextMigrate ==
    \/ Tick(ShortTime)
    \/ \E g \in GeoHints : CreateSession(g)
    \/ \E u \in UserIds, p \in Payloads : SaveItineraryForUser(u, p)
    \/ \E s \in SessionIds, p \in Payloads : SaveItineraryForSession(s, p)
    \/ \E s \in SessionIds, u \in UserIds : MigrateSessionToUser(s, u)

SpecMigrate == Init /\ [][NextMigrate]_vars

\* Migrations of one store served at the same time.
NextConc ==
    \/ Tick(ShortTime)
    \/ \E g \in GeoHints : CreateSession(g)
    \/ \E s \in SessionIds, p \in Payloads :
          Fits(FewDocs, IsSessionValid(s)[1]) /\ SaveItineraryForSession(s, p)
    \/ \E t \in TaskIds, s \in SessionIds, u \in UserIds : MigrateBegin(t, s, u)
    \/ \E t \in TaskIds : MigrateStream(t)
    \/ \E t \in TaskIds : MigrateCopy(t)
    \/ \E t \in TaskIds : MigrateMark(t)

SpecConc == Init /\ [][NextConc]_vars

\* ================================================================== claims
\* A session nobody touched since create_session wrote it.
Untouched(s) == sessions[s].lastSeen = sessions[s].createdAt

\* C1: a save under a session that was created at T and never touched is
\* accepted (and written under the id returned) at every time up to T + TTL,
\* and raises, writing nothing, at every later time.
C1_UntouchedSessionTTL ==
    [][\A s \in SessionIds, p \in Payloads :
          (s \in DOMAIN sessions /\ Untouched(s) /\ SaveItineraryForSession(s, p))
              => /\ last'.ok <=> now <= sessions[s].createdAt + TTL
                 /\ last'.ok => last'.id \in DOMAIN sessItins'[s]
                 /\ ~last'.ok => sessItins' = sessItins]_vars

\* C1 witness: an untouched session holds an itinerary saved in the last hour
\* of its life, and a save one hour later has just been refused as expired.
C1_Witness ==
    \E s \in DOMAIN sessions :
        /\ Untouched(s)
        /\ now = sessions[s].createdAt + TTL + 1
        /\ \E i \in DOMAIN sessItins[s] :
              sessItins[s][i].createdAt = sessions[s].createdAt + TTL
        /\ last.op = "save_itinerary_for_session"
        /\ ~last.ok
        /\ last.reason = "Session has expired"

\* C2: a touch of a valid session at t0 sets expiresAt to t0 + TTL whenever
\* the session was created; nothing but such a touch changes expiresAt; and a
\* save under the session is accepted exactly while the clock has not passed
\* expiresAt.
C2_TouchExtendsTTL ==
    [][\A s \in DOMAIN sessions :
          /\ (IsSessionValid(s)[1] /\ TouchSession(s, TRUE))
                => sessions'[s].expiresAt = now + TTL
          /\ sessions'[s].expiresAt # sessions[s].expiresAt
                => (IsSessionValid(s)[1] /\ TouchSession(s, TRUE))
          /\ \A p \in Payloads :
                SaveItineraryForSession(s, p) => (last'.ok <=> now <= sessions[s].expiresAt)]_vars

\* C2 witness: a save has just been accepted under a session whose first
\* four hours are over, in the last hour the touch bought.
C2_Witness ==
    \E s \in DOMAIN sessions :
        /\ now > sessions[s].createdAt + TTL
        /\ now = sessions[s].lastSeen + TTL
        /\ last.op = "save_itinerary_for_session"
        /\ last.ok
        /\ last.id \in DOMAIN sessItins[s]
        /\ sessItins[s][last.id].createdAt = now

\* C3: no itinerary document lies under a session that does not exist, and
\* none was written after the session's expiresAt (expiresAt never moves in
\* SpecWrites, so updatedAt, the time of the last write, tells).
C3_SessionWritesChecked ==
    \A s \in SessionIds : \A i \in DOMAIN sessItins[s] :
        /\ s \in DOMAIN sessions
        /\ sessItins[s][i].updatedAt <= sessions[s].expiresAt

\* C4: save_itinerary without a user id, for a session that is expired or
\* does not exist, raises: it returns no identifier and writes nothing.
C4_InvalidSessionSaveFails ==
    [][\A s \in SessionIds, p \in Payloads :
          (~IsSessionValid(s)[1] /\ SvcSaveItinerary(None, s, p, NoFault))
              => (~last'.ok /\ UNCHANGED store)]_vars

\* The fields a document has besides the ones a migration stamps.
PayloadFields(doc) == DOMAIN doc \ {"itineraryId", "migratedFromSession", "migratedAt"}

\* copy is the document original, stored under new_id by a migration of s.
IsMigratedCopy(copy, original, new_id, s) ==
    /\ DOMAIN copy = DOMAIN original \cup {"migratedFromSession", "migratedAt"}
    /\ copy.itineraryId = new_id
    /\ copy.migratedFromSession = s
    /\ \A f \in PayloadFields(original) : copy[f] = original[f]

\* The documents of user u that are stamped as migrated from session s.
FromSession(u, s) ==
    {i \in DOMAIN userItins[u] :
        /\ "migratedFromSession" \in DOMAIN userItins[u][i]
        /\ userItins[u][i].migratedFromSession = s}

\* C5: a replace of a document that exists under its owner keeps the stored
\* itineraryId equal to the document's id and keeps createdAt, whatever the
\* payload carries, and sets updatedAt to the time of the replace; and no
\* call at all changes the createdAt of a document that exists.
C5_ReplaceKeepsIdentity ==
    [][/\ \A u \in UserIds : \A i \in DOMAIN userItins[u] :
             /\ i \in DOMAIN userItins'[u]
             /\ userItins'[u][i].createdAt = userItins[u][i].createdAt
             /\ \A p \in Payloads : ReplaceItineraryForUser(u, i, p)
                   => /\ userItins'[u][i].itineraryId = i
                      /\ userItins'[u][i].updatedAt = now
       /\ \A s \in SessionIds : \A i \in DOMAIN sessItins[s] :
             /\ i \in DOMAIN sessItins'[s]
             /\ sessItins'[s][i].createdAt = sessItins[s][i].createdAt
             /\ \A p \in Payloads : ReplaceItineraryForSession(s, i, p)
                   => /\ sessItins'[s][i].itineraryId = i
                      /\ sessItins'[s][i].updatedAt = now]_vars

\* C5 witness: a user's document, saved earlier, has just been replaced with
\* the payload that carries an itineraryId and a createdAt of its own.
C5_Witness ==
    \E u \in UserIds : \E i \in DOMAIN userItins[u] :
        /\ last.op = "replace_itinerary_for_user"
        /\ last.id = i
        /\ userItins[u][i].body = "B"
        /\ userItins[u][i].createdAt < userItins[u][i].updatedAt

\* C6: a migration of an existing session that holds n itineraries returns
\* migrated with itineraryCount n and adds exactly n documents under the user,
\* each under an id never handed out before, each the copy of one of the
\* session's documents (every one of them copied) stamped with the session;
\* the documents the users already had do not change.
C6_MigrationCopies ==
    [][\A s \in DOMAIN sessions, u \in UserIds :
          MigrateSessionToUser(s, u)
              => LET src == sessItins[s]
                     new == DOMAIN userItins'[u] \ DOMAIN userItins[u]
                 IN /\ last'.ok /\ last'.migrated
                    /\ last'.count = Cardinality(DOMAIN src)
                    /\ Cardinality(new) = Cardinality(DOMAIN src)
                    /\ new \cap KnownIds = {}
                    /\ \A k \in new : \E x \in DOMAIN src :
                          IsMigratedCopy(userItins'[u][k], src[x], k, s)
                    /\ \A x \in DOMAIN src : \E k \in new :
                          IsMigratedCopy(userItins'[u][k], src[x], k, s)
                    /\ \A i \in DOMAIN userItins[u] : userItins'[u][i] = userItins[u][i]
                    /\ \A v \in UserIds \ {u} : userItins'[v] = userItins[v]]_vars

\* C6 witness: a migration has just returned itineraryCount 2 and a user
\* holds two documents stamped with the session.
C6_Witness ==
    /\ last.op = "migrate_session_to_user"
    /\ last.migrated
    /\ last.count = 2
    /\ \E u \in UserIds, s \in DOMAIN sessions : Cardinality(FromSession(u, s)) = 2

\* C7: a migration leaves the itinerary documents under the session as they
\* were: the same ids with the same contents.
C7_MigrationKeepsOriginals ==
    [][last'.op = "migrate_session_to_user" => sessItins' = sessItins]_vars

\* C7 witness: after a migration that copied documents the session still
\* holds as many documents as were copied, each under its own id.
C7_Witness ==
    /\ last.op = "migrate_session_to_user"
    /\ last.count >= 1
    /\ \E s \in DOMAIN sessions :
          /\ sessions[s].migratedTo # None
          /\ Cardinality(DOMAIN sessItins[s]) = last.count
          /\ \A i \in DOMAIN sessItins[s] :
                /\ sessItins[s][i].itineraryId = i
                /\ "migratedFromSession" \notin DOMAIN sessItins[s][i]

\* The fields of a session document a migration has to leave alone.
SessionFrame == {"sessionId", "createdAt", "lastSeen", "expiresAt", "preferences", "geoHint"}

\* C8: create_session writes migratedTo = None; only a migration of the
\* session changes migratedTo; and a migration to u that returns migrated
\* leaves migratedTo = u and every other field of the session as it was.
C8_MigratedToMarks ==
    [][/\ \A g \in GeoHints : CreateSession(g) => sessions'[nextSess].migratedTo = None
       /\ \A s \in DOMAIN sessions :
             /\ sessions'[s].migratedTo # sessions[s].migratedTo
                   => \E u \in UserIds : MigrateSessionToUser(s, u)
             /\ \A u \in UserIds :
                   MigrateSessionToUser(s, u)
                       => /\ last'.migrated
                          /\ sessions'[s].migratedTo = u
                          /\ \A f \in SessionFrame :
                                /\ f \in DOMAIN sessions'[s]
                                /\ sessions'[s][f] = sessions[s][f]]_vars

\* C8 witness: a session created with a geo hint has just been migrated.
C8_Witness ==
    /\ last.op = "migrate_session_to_user"
    /\ last.migrated
    /\ \E s \in DOMAIN sessions :
          /\ sessions[s].migratedTo \in UserIds
          /\ sessions[s].geoHint = "IN"
          /\ sessions[s].expiresAt = sessions[s].createdAt + TTL

\* C9: a migration of a session id that has no document returns (it does not
\* raise) migrated = false with the reason 'session not found', and the
\* store is left as it was.
C9_MigrateMissingSession ==
    [][\A s \in SessionIds, u \in UserIds :
          (s \notin DOMAIN sessions /\ MigrateSessionToUser(s, u))
              => /\ last'.ok
                 /\ ~last'.migrated
                 /\ last'.reason = "session not found"
                 /\ UNCHANGED store]_vars

\* C9 witness: with a document under a user and no session at all, a
\* migration has just answered 'session not found'.
C9_Witness ==
    /\ sessions = <<>>
    /\ \E u \in UserIds : userItins[u] # <<>>
    /\ last.op = "migrate_session_to_user"
    /\ ~last.migrated
    /\ last.reason = "session not found"

\* The migrations of session s to user u that have returned.
Returned(s, u) ==
    {t \in TaskIds : tasks[t].pc = "done" /\ tasks[t].sid = s /\ tasks[t].uid = u}

\* The migrations of session s to user u that are still running.
Running(s, u) ==
    {t \in TaskIds : tasks[t].pc \in {"stream", "copy"} /\ tasks[t].sid = s /\ tasks[t].uid = u}

RECURSIVE CountSum(_)
CountSum(T) ==
    IF T = {} THEN 0
    ELSE LET t == CHOOSE x \in T : TRUE
         IN tasks[t].result.count + CountSum(T \ {t})

\* C10: a migration of a session that exists is never refused, marked or
\* not: it returns migrated with the count of the itineraries the session
\* held, every one of them copied under an id of its own; so once the
\* migrations of S to U have all returned, U holds as many documents stamped
\* with S as they counted together (2n after two migrations of n).
C10_SecondMigrationDuplicates ==
    /\ \A t \in TaskIds :
          (tasks[t].pc = "done" /\ tasks[t].session_snap # <<>>)
              => /\ tasks[t].result.migrated
                 /\ tasks[t].result.count = Cardinality(DOMAIN tasks[t].itineraries)
                 /\ Cardinality({tasks[t].migrated_ids[k] : k \in 1..Len(tasks[t].migrated_ids)})
                        = tasks[t].result.count
    /\ \A s \in SessionIds, u \in UserIds :
          Running(s, u) = {}
              => Cardinality(FromSession(u, s)) = CountSum(Returned(s, u))

\* C10 witness: two migrations of a session holding two itineraries to the
\* same user have returned, the later one begun when the session was
\* already marked, and the user holds four documents stamped with it.
C10_Witness ==
    \E t1, t2 \in TaskIds :
        /\ t1 # t2
        /\ tasks[t1].pc = "done" /\ tasks[t2].pc = "done"
        /\ tasks[t1].sid = tasks[t2].sid /\ tasks[t1].uid = tasks[t2].uid
        /\ tasks[t1].result.count = 2 /\ tasks[t2].result.count = 2
        /\ tasks[t2].session_snap # <<>>
        /\ tasks[t2].session_snap.migratedTo = tasks[t1].uid
        /\ Cardinality(FromSession(tasks[t1].uid, tasks[t1].sid)) = 4

\* C11: after any sequence of save, replace and migrate operations no
\* itineraryId is present both under some user's itineraries and under
\* some session's itineraries.
C11_ExclusiveOwnership ==
    \A u \in UserIds : \A s \in SessionIds :
        DOMAIN userItins[u] \cap DOMAIN sessItins[s] = {}

\* C20: whenever the store write of save_itinerary fails for an
\* infrastructure reason, whatever the message of the error, save_itinerary
\* returns a placeholder identifier instead of raising.
C20_PersistenceFailureDegrades ==
    [][\A u \in UserIds \cup {None}, s \in SessionIds \cup {0}, p \in Payloads,
          f \in FaultMessages :
          ((TruthyUser(u) \/ TruthySession(s)) /\ SvcSaveItinerary(u, s, p, f))
              => (last'.ok /\ last'.kind = "mock")]_vars

\* --------------------------------------------- SmartAdjustAgent.adjust_itinerary
\* The text of a model response is a sequence of tokens: the two code-fence
\* markers, braces and brackets, days (an object member named days whose
\* value is an empty list), x (prose, never part of JSON) and whitespace.
\* The markers are three backquotes, with and without the word json.
Fence == "FENCE"

JsonFence == "FENCEjson"

ContentTokens == {JsonFence, Fence, "{", "}", "[", "]", "days", "x", " "}

Contents == UNION {[1..n -> ContentTokens] : n \in 0..MaxContent}

\* A parsed JSON value: a dict (function from keys to values) or a list.
JsonDict(f) == [kind |-> "dict", val |-> f]

JsonList(items) == [kind |-> "list", val |-> items]

\* str.strip()
RECURSIVE LStrip(_)
LStrip(s) == IF s # <<>> /\ Head(s) = " " THEN LStrip(Tail(s)) ELSE s

RECURSIVE RStrip(_)
RStrip(s) ==
    IF s # <<>> /\ s[Len(s)] = " " THEN RStrip(SubSeq(s, 1, Len(s) - 1)) ELSE s

Strip(s) == LStrip(RStrip(s))

\* str.startswith / str.endswith of the fence markers
StartsWithJsonFence(s) == s # <<>> /\ Head(s) = JsonFence

StartsWithFence(s) == s # <<>> /\ Head(s) \in {Fence, JsonFence}

EndsWithFence(s) == s # <<>> /\ s[Len(s)] = Fence

\* content[3:] of a text that starts with a fence: of the json fence the
\* letters json stay behind.
DropFence(s) == IF Head(s) = Fence THEN Tail(s) ELSE <<"json">> \o Tail(s)

DropLast(s) == SubSeq(s, 1, Len(s) - 1)

\* str.find / str.rfind: the first / last position of tok, 0 when absent
\* (Python: -1).
Find(s, tok) ==
    IF \E i \in 1..Len(s) : s[i] = tok
    THEN CHOOSE i \in 1..Len(s) : s[i] = tok /\ \A j \in 1..(i - 1) : s[j] # tok
    ELSE 0

RFind(s, tok) ==
    IF \E i \in 1..Len(s) : s[i] = tok
    THEN CHOOSE i \in 1..Len(s) : s[i] = tok /\ \A j \in (i + 1)..Len(s) : s[j] # tok
    ELSE 0

\* json.loads: a value is an object ({} or {days}) or a list of at most one
\* value, with whitespace allowed between tokens; anything else, and any
\* text left after the value, is a JSONDecodeError.
ParseFail == [ok |-> FALSE, next |-> 0, val |-> JsonList(<<>>)]

Parsed(next, val) == [ok |-> TRUE, next |-> next, val |-> val]

RECURSIVE SkipWs(_, _)
SkipWs(s, i) == IF i <= Len(s) /\ s[i] = " " THEN SkipWs(s, i + 1) ELSE i

At(s, i) == IF i <= Len(s) THEN s[i] ELSE "EOF"

RECURSIVE ParseValue(_, _)
ParseValue(s, i) ==
    LET j == SkipWs(s, i)
        k == SkipWs(s, j + 1)
    IN  IF At(s, j) = "{"
        THEN IF At(s, k) = "}"
             THEN Parsed(k + 1, JsonDict(<<>>))
             ELSE IF At(s, k) = "days" /\ At(s, SkipWs(s, k + 1)) = "}"
                  THEN Parsed(SkipWs(s, k + 1) + 1, JsonDict([f \in {"days"} |-> <<>>]))
                  ELSE ParseFail
        ELSE IF At(s, j) = "["
        THEN IF At(s, k) = "]"
             THEN Parsed(k + 1, JsonList(<<>>))
             ELSE LET e == ParseValue(s, k) IN
                  IF e.ok /\ At(s, SkipWs(s, e.next)) = "]"
                  THEN Parsed(SkipWs(s, e.next) + 1, JsonList(<<e.val>>))
                  ELSE ParseFail
        ELSE ParseFail

JsonLoads(s) ==
    LET r == ParseValue(s, 1) IN
    IF r.ok /\ SkipWs(s, r.next) > Len(s) THEN r ELSE ParseFail

\* Lines 71-90 of adjust_itinerary: strip, drop the fences, strip, and cut
\* from the first "{" to the last "}" when there is such a pair.
AdjustCleaned(content) ==
    LET c1 == Strip(content)
        c2 == IF StartsWithJsonFence(c1) THEN Tail(c1)
              ELSE IF StartsWithFence(c1) THEN DropFence(c1)
              ELSE c1
        c3 == IF EndsWithFence(c2) THEN DropLast(c2) ELSE c2
        c4 == Strip(c3)
        start_idx == Find(c4, "{")
        end_idx == RFind(c4, "}")
    IN  IF start_idx # 0 /\ end_idx # 0 /\ end_idx > start_idx
        THEN SubSeq(c4, start_idx, end_idx)
        ELSE c4

\* re.search(r'\{.*\}', text, re.DOTALL): the leftmost "{" through the last
\* "}" behind it; <<>> when there is no match.
RegexSearch(text) ==
    LET i == Find(text, "{")
        j == RFind(text, "}")
    IN  IF i # 0 /\ j > i THEN SubSeq(text, i, j) ELSE <<>>

\* The structure test of lines 98-102 finds days only in a dict.
StructureError_DictOnly(v) ==
    IF v.kind # "dict" THEN "Response is not a valid JSON object" ELSE ""

\* The structure test of lines 98-102: "" when the value passes.
StructureError(v) ==
    IF v.kind # "dict" THEN "Response is not a valid JSON object"
    ELSE IF "days" \notin DOMAIN v.val THEN "Response missing required 'days' field"
    ELSE ""

AdjustReturned(v, path) == [raised |-> FALSE, error |-> "", value |-> v, path |-> path]

AdjustRaised(error, path) ==
    [raised |-> TRUE, error |-> error, value |-> JsonList(<<>>), path |-> path]

\* What adjust_itinerary returns or raises for a response of the model
\* client.  A successful response always carries text (generate_content
\* answers success = False when the provider returned none).
AdjustOutcome(current_itinerary, response) ==
    IF ~response.success
    THEN AdjustRaised("Failed to adjust itinerary", "model")
    ELSE LET parsed == JsonLoads(AdjustCleaned(response.content))
             json_str == RegexSearch(response.content)
             recovered == JsonLoads(json_str)
         IN  IF parsed.ok
             THEN IF StructureError(parsed.val) = ""
                  THEN AdjustReturned(parsed.val, "main")
                  ELSE AdjustRaised("Invalid itinerary structure", "main")
             ELSE IF json_str # <<>> /\ recovered.ok
                  THEN AdjustReturned(recovered.val, "regex")
                  ELSE AdjustRaised("Failed to parse LLM response as JSON",
                                    IF json_str # <<>> THEN "regex" ELSE "main")

\* The itineraries a caller hands to adjust_itinerary.
CurrentItineraries ==
    { JsonDict([f \in {"days"} |-> <<>>]),
      JsonDict([f \in {"days", "title"} |-> <<>>]) }

\* The envelopes generate_content returns: success = False with empty
\* content, or success = True with the text of the model.
FailedResponse == [success |-> FALSE, content |-> <<>>]

AdjustResponses == {FailedResponse} \cup {[success |-> TRUE, content |-> c] : c \in Contents}

\* SmartAdjustAgent.adjust_itinerary
AdjustItinerary(current_itinerary, response) ==
    /\ adjust.pc = "idle"
    /\ adjust' = [pc |-> "done", current_itinerary |-> current_itinerary,
                  response |-> response,
                  result |-> AdjustOutcome(current_itinerary, response)]
    /\ UNCHANGED <<now, sessions, sessItins, userItins, nextId, nextSess, using_mock,
                   last, tasks, plan>>

\* Calls of the adjustment agent.
NextAdjust ==
    /\ adjust.pc = "idle"
    /\ \E c \in CurrentItineraries, r \in AdjustResponses : AdjustItinerary(c, r)

SpecAdjust == Init /\ [][NextAdjust]_vars

\* The response did not yield a JSON object: the call failed, or neither the
\* cleaned text nor the regex match parses to a dict.
NoJsonObject(response) ==
    \/ ~response.success
    \/ /\ ~(JsonLoads(AdjustCleaned(response.content)).ok
            /\ JsonLoads(AdjustCleaned(response.content)).val.kind = "dict")
       /\ ~(JsonLoads(RegexSearch(response.content)).ok
            /\ JsonLoads(RegexSearch(response.content)).val.kind = "dict")

\* C12: when the model invocation fails or its content cannot be parsed as
\* a JSON object, adjust_itinerary does not raise and returns an object
\* equal to the current_itinerary it was given.
C12_AdjustNonDestructive ==
    (adjust.pc = "done" /\ NoJsonObject(adjust.response))
        => (~adjust.result.raised /\ adjust.result.value = adjust.current_itinerary)

\* C13: adjust_itinerary never returns a parsed result that is not a JSON
\* object or that lacks the days key, on the main path (with or without
\* brace extraction) and on the regex fallback path.
C13_AdjustReturnsItinerary ==
    (adjust.pc = "done" /\ ~adjust.result.raised)
        => (adjust.result.value.kind = "dict" /\ "days" \in DOMAIN adjust.result.value.val)

\* C13 witness: the model wrapped an object with days in prose and a fence;
\* the object cut out between the braces was returned.
C13_Witness ==
    /\ adjust.pc = "done"
    /\ ~adjust.result.raised
    /\ adjust.response.content = <<"x", "{", "days", "}">>
    /\ "days" \in DOMAIN adjust.result.value.val

\* The regex fallback is entered (the first parse failed and the pattern
\* matched) but its second json.loads sees the text the first one saw.
AdjustRegexNeverReturns ==
    adjust.pc = "done" => adjust.result.path # "regex" \/ adjust.result.raised

\* ------------------------------------- ItineraryService.generate_itinerary
\* The text of a response to a plan request: fences, whitespace, prose (x)
\* and D, the serialized JSON document the response carries.
GenTokens == {JsonFence, Fence, " ", "x", "D"}

GenContents == UNION {[1..n -> GenTokens] : n \in 0..MaxGenContent}

JsonNull == [kind |-> "null", val |-> <<>>]

\* dict.get(key, default)
Get(d, key, default) == IF key \in DOMAIN d THEN d[key] ELSE default

\* A key that is present only under a condition.
Opt(key, present, value) == IF present THEN key :> value ELSE <<>>

\* Activities as the model may emit them: with a poiId, a poiSnapshot, both
\* or neither, with a title or a name or neither, with an empty poiId.
ModelActivities ==
    { "title" :> "Fort",
      ("title" :> "Fort") @@ ("poiId" :> "poi_1"),
      ("title" :> "Fort") @@ ("poiSnapshot" :> [name |-> "Old Fort"]),
      ("title" :> "Fort") @@ ("poiId" :> "poi_1") @@ ("poiSnapshot" :> [name |-> "Old Fort"]),
      ("name" :> "Beach") @@ ("poiId" :> "") @@ ("cost" :> 50),
      <<>> }

ActivityLists == UNION {[1..n -> ModelActivities] : n \in 0..MaxActivities}

\* A day of the model: with an activities list, without the key, or
\* without its dayIndex.
ModelDays ==
    {"dayIndex" :> 1, "activities" :> <<>>}
        \cup {("dayIndex" :> 1) @@ ("activities" :> a) : a \in ActivityLists}

\* The value under days: a list of at most one day, or null.
ModelDaysValues == {JsonNull, JsonList(<<>>)} \cup {JsonList(<<d>>) : d \in ModelDays}

\* The input section the model echoes, when it echoes one.
ModelInputs ==
    { <<>>,
      [destination |-> [name |-> "Tokyo"], numDays |-> 1, budget |-> 10000] }

\* The documents a response can carry: a dict with or without input, days
\* and the remaining top-level keys, or a list.
ModelDocuments ==
    {JsonList(<<>>)} \cup
    { JsonDict(Opt("input", has_input, input) @@ Opt("days", has_days, days)
               @@ Opt("title", rest, <<"Tokyo", "Tour">>) @@ Opt("estimatedCost", rest, 900)
               @@ Opt("meta", rest, [version |-> "0.9"])
               @@ Opt("itineraryId", rest, "model_id")) :
        has_input \in BOOLEAN, input \in ModelInputs, has_days \in BOOLEAN,
        days \in ModelDaysValues, rest \in BOOLEAN }

\* The sample itinerary of MockLLMService, as far as the service reads it.
MockDocument ==
    JsonDict([title |-> <<"Tokyo", "1-Day", "Cultural", "Experience">>,
              input |-> [destination |-> [name |-> "Tokyo"], numDays |-> 1, budget |-> 10000],
              days |-> JsonList(<<[day |-> 1, activities |-> <<[title |-> "Senso-ji Temple Visit"]>>]>>),
              estimatedCost |-> 8500,
              meta |-> [version |-> "1.0", searchUsed |-> FALSE]])

MockResponse == [success |-> TRUE, content |-> <<"D">>, document |-> MockDocument]

FailedGenResponse == [success |-> FALSE, content |-> <<>>, document |-> JsonNull]

\* _parse_llm_response, lines 210-220: strip, drop the fences, strip.
GenCleaned(response_content) ==
    LET c1 == Strip(response_content)
        c2 == IF StartsWithJsonFence(c1) THEN Tail(c1) ELSE c1
        c3 == IF StartsWithFence(c2) THEN DropFence(c2) ELSE c2
        c4 == IF EndsWithFence(c3) THEN DropLast(c3) ELSE c3
    IN  Strip(c4)

\* json.loads of a text that holds the document D: the document alone, with
\* whitespace around it at most, parses; anything else is a JSONDecodeError.
LoadsDocument(s, document) ==
    LET j == SkipWs(s, 1) IN
    IF At(s, j) = "D" /\ SkipWs(s, j + 1) > Len(s) THEN Parsed(j + 1, document) ELSE ParseFail

\* _parse_llm_response
ParseLlmResponse(response) == LoadsDocument(GenCleaned(response.content), response.document)

\* Python truthiness of a string
TruthyStr(x) == x # ""

\* activity.get('title') or activity.get('name', 'Unknown Activity')
ActivityName(activity) ==
    IF "title" \in DOMAIN activity /\ TruthyStr(activity.title)
    THEN activity.title
    ELSE Get(activity, "name", "Unknown Activity")

\* f"fallback_{uuid.uuid4().hex[:8]}": a fresh id per activity
FallbackId(d, a) == "fallback_" \o ToString(d) \o "_" \o ToString(a)

\* An activity left as the model sent it.
WithFallback_Untouched(activity, d, a) == activity

\* The body of the loop of _add_fallback_poi_ids for one activity.
WithFallback(activity, d, a) ==
    IF TruthyStr(Get(activity, "poiId", ""))
    THEN activity
    ELSE ("poiId" :> FallbackId(d, a))
         @@ ("poiSnapshot" :> [name |-> ActivityName(activity)])
         @@ activity

DayWithFallback(day, d) ==
    IF "activities" \in DOMAIN day
    THEN [day EXCEPT !.activities = [a \in DOMAIN @ |-> WithFallback(@[a], d, a)]]
    ELSE day

\* _add_fallback_poi_ids: a list has no 'days' element; iterating a null
\* days raises, the except returns the data as it is.
AddFallbackPoiIds(value) ==
    IF value.kind # "dict" \/ "days" \notin DOMAIN value.val \/ value.val.days.kind # "list"
    THEN value
    ELSE JsonDict([value.val EXCEPT !.days =
            JsonList([d \in DOMAIN @.val |-> DayWithFallback(@.val[d], d)])])

\* _add_metadata of a dict (item assignment on a list raises TypeError)
AddMetadata(data, request, search_used) ==
    LET input == Opt("destination", TruthyStr(request.destination),
                     [name |-> request.destination])
                 @@ Opt("numDays", request.days # 0, request.days)
                 @@ Opt("budget", request.budget # 0, request.budget)
                 @@ Opt("sliders", request.preferences # <<>>, request.preferences)
                 @@ Get(data, "input", <<>>)
        meta == [generatedAt |-> now, generatedBy |-> "ItineraryService",
                 llmTraceId |-> "trace_new", version |-> "1.0",
                 searchUsed |-> search_used]
                @@ Get(data, "meta", <<>>)
    IN  ("input" :> input) @@ ("meta" :> meta)
        @@ Opt("itineraryId", "itineraryId" \notin DOMAIN data, "itin_new")
        @@ data

\* validate_itinerary_structure of the real client; MockLLMService answers
\* valid: True to everything.
RequiredFields == {"title", "input", "days", "estimatedCost", "meta"}

InputRequired == {"destination", "numDays"}

ValidateItineraryStructure(data) ==
    LET missing_fields == RequiredFields \ DOMAIN data
        missing_input == IF "input" \in DOMAIN data
                         THEN InputRequired \ DOMAIN data.input
                         ELSE InputRequired
        days_valid == "days" \in DOMAIN data /\ data.days.kind = "list"
        days_errors ==
            IF days_valid
            THEN {<<i, "missing dayIndex">> : i \in
                     {j \in DOMAIN data.days.val : "dayIndex" \notin DOMAIN data.days.val[j]}}
                 \cup {<<i, "missing or invalid activities array">> : i \in
                     {j \in DOMAIN data.days.val : "activities" \notin DOMAIN data.days.val[j]}}
            ELSE {<<0, "days must be an array">>}
    IN  IF using_mock
        THEN [valid |-> TRUE, missing_fields |-> {}, missing_input_fields |-> {},
              days_errors |-> {}]
        ELSE [valid |-> missing_fields = {} /\ missing_input = {} /\ days_valid,
              missing_fields |-> missing_fields,
              missing_input_fields |-> missing_input,
              days_errors |-> days_errors]

\* Sum of activity.get("cost", 0) over the activities of the days.
RECURSIVE SumCosts(_)
SumCosts(activities) ==
    IF activities = <<>> THEN 0
    ELSE Get(Head(activities), "cost", 0) + SumCosts(Tail(activities))

RECURSIVE TotalCost(_)
TotalCost(days) ==
    IF days = <<>> THEN 0
    ELSE SumCosts(Get(Head(days), "activities", <<>>)) + TotalCost(Tail(days))

\* "to " in title, and title.split("to ")[-1].split()[0], on a title given
\* as its words: a word that ends in "to" and is followed by another word.
EndsInTo(word) == word \in {"to", "Toronto"}

TitleHasTo(title) == \E i \in 1..(Len(title) - 1) : EndsInTo(title[i])

TitleDestination(title) ==
    title[1 + CHOOSE i \in 1..(Len(title) - 1) :
                /\ EndsInTo(title[i])
                /\ \A j \in (i + 1)..(Len(title) - 1) : ~EndsInTo(title[j])]

\* _fix_validation_issues raises TypeError when it iterates or measures a
\* days that is null.
FixRaises(data, validation) ==
    /\ "days" \in DOMAIN data
    /\ data.days.kind # "list"
    /\ \/ "estimatedCost" \in validation.missing_fields
       \/ "numDays" \in validation.missing_input_fields

\* _fix_validation_issues, when it does not raise
FixValidationIssues(data, validation) ==
    LET days == IF "days" \in DOMAIN data THEN data.days.val ELSE <<>>
        dest == Get(Get(data, "input", <<>>), "destination", "Unknown")
        total_cost == TotalCost(days)
        budget == Get(Get(data, "input", <<>>), "budget", 0)
        title == Get(data, "title", <<>>)
        fixed == data
                 @@ Opt("title", "title" \in validation.missing_fields, <<"Trip", "to", dest>>)
                 @@ Opt("estimatedCost", "estimatedCost" \in validation.missing_fields,
                        IF total_cost # 0 THEN total_cost ELSE budget)
                 @@ Opt("meta", "meta" \in validation.missing_fields, <<>>)
        input == Get(fixed, "input", <<>>)
                 @@ Opt("numDays", "numDays" \in validation.missing_input_fields, Len(days))
                 @@ Opt("destination", "destination" \in validation.missing_input_fields,
                        IF TitleHasTo(title) THEN [name |-> TitleDestination(title)]
                        ELSE [name |-> "Unknown"])
    IN  IF validation.missing_input_fields # {}
        THEN ("input" :> input) @@ fixed
        ELSE fixed

GenReturned(itinerary_data) ==
    [raised |-> FALSE, exc |-> "", itinerary |-> itinerary_data, calls |-> 1]

GenRaised(exc) == [raised |-> TRUE, exc |-> exc, itinerary |-> <<>>, calls |-> 1]

\* generate_itinerary: one generate_content call, then parse, fallback
\* ids, metadata, validation and repair.  request holds the arguments.
GenerateOutcome(request, response) ==
    IF ~response.success THEN GenRaised("RuntimeError")
    ELSE LET parsed == ParseLlmResponse(response)
             with_ids == AddFallbackPoiIds(parsed.val)
             with_meta == AddMetadata(with_ids.val, request, ~using_mock)
             validation == ValidateItineraryStructure(with_meta)
         IN  IF ~parsed.ok THEN GenRaised("ValueError")
             ELSE IF with_ids.kind # "dict" THEN GenRaised("TypeError")
             ELSE IF validation.valid THEN GenReturned(with_meta)
             ELSE IF FixRaises(with_meta, validation) THEN GenRaised("TypeError")
             ELSE GenReturned(FixValidationIssues(with_meta, validation))

\* The arguments plan_trip passes on from a request it accepted.
GenRequests ==
    [destination : {"Goa", "Rome"}, days : {1}, budget : {0, 20000},
     preferences : {<<>>, [nature |-> 70]}]

\* What generate_content answers: the canned sample of the mock, or, from
\* the real client, a failure or a text with the document it carries.
GenResponses(contents, documents) ==
    IF using_mock THEN {MockResponse}
    ELSE {FailedGenResponse} \cup
         {[success |-> TRUE, content |-> c, document |-> d] : c \in contents, d \in documents}

\* ItineraryService.generate_itinerary
GenerateItinerary(request, response) ==
    /\ plan.pc = "idle"
    /\ plan' = [pc |-> "generated", request |-> request, response |-> response,
                outcome |-> GenerateOutcome(request, response)]
    /\ UNCHANGED <<now, sessions, sessItins, userItins, nextId, nextSess, using_mock,
                   last, tasks, adjust>>

\* Calls of generate_itinerary, on responses whose text is the document,
\* bare or fenced.
PlainContents == {<<"D">>, <<JsonFence, " ", "D", " ", Fence>>}

NextGenerate ==
    /\ plan.pc = "idle"
    /\ \E q \in GenRequests, r \in GenResponses(PlainContents, ModelDocuments) :
          GenerateItinerary(q, r)

SpecGenerate == InitService /\ [][NextGenerate]_vars

\* The activities of a returned itinerary, as <<day, position>> pairs.
Activities(itinerary) ==
    IF "days" \in DOMAIN itinerary /\ itinerary.days.kind = "list"
    THEN {<<d, a>> \in (DOMAIN itinerary.days.val) \X (1..MaxActivities) :
            /\ "activities" \in DOMAIN itinerary.days.val[d]
            /\ a \in DOMAIN itinerary.days.val[d].activities}
    ELSE {}

ActivityAt(itinerary, da) == itinerary.days.val[da[1]].activities[da[2]]

\* C14: the itinerary generate_itinerary returns for a valid request has
\* input.destination equal to the destination of the request and
\* input.budget equal to the budget of the request (0 included), whatever
\* input section the model echoed.
C14_InputEchoesRequest ==
    (plan.pc = "generated" /\ ~plan.outcome.raised)
        => /\ "destination" \in DOMAIN plan.outcome.itinerary.input
           /\ plan.outcome.itinerary.input.destination = [name |-> plan.request.destination]
           /\ "budget" \in DOMAIN plan.outcome.itinerary.input
           /\ plan.outcome.itinerary.input.budget = plan.request.budget

C16_ExactlyOneReference ==
    (plan.pc = "generated" /\ ~plan.outcome.raised)
        => \A da \in Activities(plan.outcome.itinerary) :
              LET activity == ActivityAt(plan.outcome.itinerary, da) IN
              ("poiId" \in DOMAIN activity) # ("poiSnapshot" \in DOMAIN activity)

\* ------------------------------------------------------ plan_trip (POST /plantrip)
\* valid_prefs of PlanTripRequest.validate_preferences
ValidPrefs ==
    {"nature", "nightlife", "adventure", "leisure", "heritage", "culture", "food",
     "shopping", "unexplored"}

\* Keys and values a client may send as preference sliders.
PrefKeys == {"nature", "unexplored", "beach"}

PrefValues == {PrefMin - 1, PrefMin, PrefMax, PrefMax + 1}

Preferences == UNION {[keys -> PrefValues] : keys \in SUBSET PrefKeys}

\* validate_preferences with the bounds of the range excluded
ValidatePreferences_OpenRange(v) ==
    [rejected |-> \E key \in DOMAIN v :
                      key \notin ValidPrefs \/ ~(PrefMin < v[key] /\ v[key] < PrefMax),
     value |-> v]

\* PlanTripRequest.validate_preferences: raises ValueError (rejected) or
\* returns v.  An empty dict is falsy and skips the loop.
ValidatePreferences(v) ==
    [rejected |-> v # <<>> /\ \E key \in DOMAIN v :
                      key \notin ValidPrefs \/ ~(PrefMin <= v[key] /\ v[key] <= PrefMax),
     value |-> v]

\* The Field constraints of PlanTripRequest on destination, days and budget.
FieldsValid(request) ==
    /\ Len(request.destination) >= DestMinLen
    /\ Len(request.destination) <= DestMaxLen
    /\ request.days >= DaysMin
    /\ request.days <= DaysMax
    /\ request.budget >= 0

\* A request body reaches plan_trip only when PlanTripRequest accepts it;
\* otherwise the framework answers and the handler does not run.
ReceivePlanRequest(request, uid) ==
    /\ plan.pc = "idle"
    /\ plan' = [pc |-> IF FieldsValid(request) /\ ~ValidatePreferences(request.preferences).rejected
                       THEN "accepted" ELSE "rejected",
                received |-> request,
                request |-> [request EXCEPT
                                !.preferences = ValidatePreferences(request.preferences).value],
                uid |-> uid]
    /\ UNCHANGED <<now, sessions, sessItins, userItins, nextId, nextSess, using_mock,
                   last, tasks, adjust>>

\* Plan requests that differ in their destination and preference sliders.
NextPrefs ==
    /\ plan.pc = "idle"
    /\ \E d \in {"G", "Goa"}, p \in Preferences :
          ReceivePlanRequest([sessionId |-> 0, destination |-> d, days |-> 1,
                              budget |-> 0, preferences |-> p], None)

SpecPrefs == Init /\ [][NextPrefs]_vars

\* A preference map the claim calls invalid: a key outside the vocabulary
\* or a value outside 0..100.
BadPreferences(p) ==
    \E key \in DOMAIN p :
        \/ key \notin {"nature", "nightlife", "adventure", "leisure", "heritage",
                       "culture", "food", "shopping", "unexplored"}
        \/ p[key] < 0
        \/ p[key] > 100

\* C17: a plan request is rejected when a preference key is outside the
\* vocabulary or a value is outside 0..100; when every key is in the
\* vocabulary and every value in 0..100 (0 and 100 included) the
\* preferences are accepted and passed on as sent, not clamped.
C17_PreferencesValidated ==
    plan.pc \in {"accepted", "rejected"}
        => /\ BadPreferences(plan.received.preferences) => plan.pc = "rejected"
           /\ (~BadPreferences(plan.received.preferences) /\ FieldsValid(plan.received))
                 => /\ plan.pc = "accepted"
                    /\ plan.request.preferences = plan.received.preferences

\* C17 witness: sliders at both ends of the range were accepted.
C17_Witness ==
    /\ plan.pc = "accepted"
    /\ plan.request.preferences = [nature |-> 0, unexplored |-> 100]

\* The session document create_session writes for the id sid.
NewSessionDoc(sid, geo_hint) ==
    [sessionId |-> sid, createdAt |-> now, lastSeen |-> now, expiresAt |-> now + TTL,
     geoHint |-> geo_hint, preferences |-> "{}", migratedTo |-> None]

\* validate_auth_or_session creates a session when the request has neither
\* a user nor a sessionId.  What it binds to session_id is the dict the
\* /session route function returns, not the id string.
AutoSession(user_id, session_id) == ~TruthyUser(user_id) /\ ~TruthySession(session_id)

\* The ValueError save_itinerary_for_session raises for that dict: the
\* store client refuses it as a document id, is_session_valid reports the
\* error as an invalid session.
DictSessionError ==
    <<"Cannot save itinerary: ", "Error checking session: ", "document id is not a string">>

\* The try block of save_itinerary as plan_trip calls it.
PlanSaveOutcome(user_id, session_id, fault) ==
    IF AutoSession(user_id, session_id)
    THEN <<"raised", DictSessionError>>
    ELSE TryOutcome(user_id, session_id, fault)

\* The exception save_itinerary re-raises is a ValueError when it comes
\* from the session check or the missing owner, and an error of the store
\* client otherwise.
SaveErrorClass(user_id, fault) ==
    IF TruthyUser(user_id) /\ fault # NoFault THEN "Exception" ELSE "ValueError"

\* The HTTP answers of plan_trip: 200 with the itinerary and its id, and the
\* three except branches.
PlanSuccess(id, kind, itinerary) ==
    [status |-> 200, message |-> "success", id |-> id, kind |-> kind,
     itinerary |-> itinerary]

PlanError(status, message) ==
    [status |-> status, message |-> message, id |-> 0, kind |-> "none", itinerary |-> <<>>]

InvalidRequest == PlanError(400, "Invalid request")

AiUnavailable == PlanError(500, "AI service temporarily unavailable")

InternalError == PlanError(500, "Internal server error")

ErrorFor(exc) ==
    CASE exc = "ValueError" -> InvalidRequest
      [] exc = "RuntimeError" -> AiUnavailable
      [] OTHER -> InternalError

\* generate_itinerary with a second generate_content call after a failure
PlanGenerate_Retry(request, response) ==
    IF response.success THEN GenerateOutcome(request, response)
    ELSE [GenerateOutcome(request, response) EXCEPT !.calls = 2]

\* The generate_itinerary call of plan_trip
PlanGenerate(request, response) == GenerateOutcome(request, response)

\* plan_trip, for a request PlanTripRequest accepted.  response is what the
\* model client answers, fault the error of the store client (NoFault: the
\* store answers).
PlanTrip(response, fault) ==
    LET user_id == plan.uid
        session_id == plan.request.sessionId
        auto == AutoSession(user_id, session_id)
        create_fails == auto /\ fault # NoFault
        generated == PlanGenerate(plan.request, response)
        out == PlanSaveOutcome(user_id, session_id, fault)
        saves == ~create_fails /\ ~generated.raised /\ out[1] = "returned"
        http == IF create_fails THEN InternalError
                ELSE IF generated.raised THEN ErrorFor(generated.exc)
                ELSE IF out[1] = "returned" THEN PlanSuccess(nextId, "real", generated.itinerary)
                ELSE IF ReturnsMockId(out[2]) THEN PlanSuccess(0, "mock", generated.itinerary)
                ELSE ErrorFor(SaveErrorClass(user_id, fault))
    IN  /\ plan.pc = "accepted"
        /\ auto /\ ~create_fails => nextSess <= MaxSessions
        /\ saves => Room(1)
        /\ IF auto /\ ~create_fails
           THEN /\ sessions' = (nextSess :> NewSessionDoc(nextSess, None)) @@ sessions
                /\ nextSess' = nextSess + 1
           ELSE UNCHANGED <<sessions, nextSess>>
        /\ IF saves
           THEN /\ IF out[2] = "user"
                   THEN /\ userItins' = [userItins EXCEPT ![user_id] =
                                (nextId :> SavedDoc(generated.itinerary, nextId)) @@ @]
                        /\ UNCHANGED sessItins
                   ELSE /\ sessItins' = [sessItins EXCEPT ![session_id] =
                                SessionColAfterSave(@, generated.itinerary, nextId)]
                        /\ UNCHANGED userItins
                /\ nextId' = nextId + 1
           ELSE UNCHANGED <<sessItins, userItins, nextId>>
        /\ plan' = [pc |-> "done", received |-> plan.received, request |-> plan.request,
                    uid |-> user_id, response |-> response, fault |-> fault,
                    calls |-> IF create_fails THEN 0 ELSE generated.calls,
                    http |-> http]
        /\ UNCHANGED <<now, using_mock, last, tasks, adjust>>

\* The requests, model answers and store errors of the plan_trip runs.
PlanRequests ==
    [sessionId : SessionIds \cup {0}, destination : {"Goa"}, days : {1},
     budget : {20000}, preferences : {<<>>}]

PlanDocuments ==
    { JsonList(<<>>),
      JsonDict([title |-> <<"Goa", "Tour">>, estimatedCost |-> 900,
                days |-> JsonList(<<[dayIndex |-> 1, activities |-> <<[title |-> "Fort"]>>]>>)]) }

NextPlan ==
    \/ /\ plan.pc # "done"
       /\ Tick(MaxTime)
    \/ /\ plan.pc = "idle"
       /\ \E g \in GeoHints : CreateSession(g)
    \/ /\ plan.pc = "idle"
       /\ \E q \in PlanRequests, u \in {None, "u1"} : ReceivePlanRequest(q, u)
    \/ /\ plan.pc = "accepted"
       /\ \E r \in GenResponses(GenContents, PlanDocuments),
             f \in FaultMessages \cup {NoFault} : PlanTrip(r, f)

SpecPlan == InitService /\ [][NextPlan]_vars

\* A plan_trip step whose model call answered success = False.
ModelFailedStep ==
    /\ plan.pc = "accepted"
    /\ plan'.pc = "done"
    /\ plan'.calls > 0
    /\ ~plan'.response.success

\* C18 as stated: when the model client answers success = False the request
\* fails with the generation error after exactly one model invocation, and
\* nothing is written to the document store.
C18_ModelFailureWritesNothing ==
    [][ModelFailedStep
          => /\ plan'.http = AiUnavailable
             /\ plan'.calls = 1
             /\ UNCHANGED store]_vars

\* C18, amended: when the model client answers success = False the request
\* fails with the generation error after exactly one model invocation and
\* no itinerary document is written; the session documents change only by
\* the one session validate_auth_or_session created beforehand for a
\* request without user and sessionId.
C18_ModelFailureWritesNoItinerary ==
    [][ModelFailedStep
          => /\ plan'.http = AiUnavailable
             /\ plan'.calls = 1
             /\ UNCHANGED <<sessItins, userItins, nextId>>
             /\ IF AutoSession(plan.uid, plan.request.sessionId)
                THEN /\ DOMAIN sessions' = DOMAIN sessions \cup {nextSess}
                     /\ \A s \in DOMAIN sessions : sessions'[s] = sessions[s]
                ELSE UNCHANGED sessions]_vars

\* C18 witness: an anonymous request without sessionId failed on
\* success = False after one model call, leaving its new session behind.
C18_Witness ==
    /\ plan.pc = "done"
    /\ ~plan.response.success
    /\ plan.calls = 1
    /\ plan.http = AiUnavailable
    /\ AutoSession(plan.uid, plan.request.sessionId)
    /\ sessions # <<>>

\* A plan_trip step whose model call succeeded with a text that is not
\* JSON once the fences are stripped.
UnparseableStep ==
    /\ plan.pc = "accepted"
    /\ plan'.pc = "done"
    /\ plan'.calls > 0
    /\ plan'.response.success
    /\ ~ParseLlmResponse(plan'.response).ok

\* C19: when the model answers with content that is not parseable as JSON
\* after fence stripping, the request fails with an error kind of its own,
\* neither the invalid-request (validation) answer nor the upstream-model
\* answer, and nothing is persisted.
C19_StructuredContentError ==
    [][UnparseableStep
          => /\ plan'.http.status # 200
             /\ plan'.http # InvalidRequest
             /\ plan'.http # AiUnavailable
             /\ UNCHANGED store]_vars

\* ------------------------------------------------ owner resolution on save
\* C21: save_itinerary given both a user id and a session id writes the
\* itinerary under the user only (under the id it returns); the session's
\* itineraries and the session documents stay as they were, and the write
\* succeeds whether the session is valid, expired or missing.
C21_UserTakesPrecedence ==
    [][\A u \in UserIds, s \in SessionIds, p \in Payloads :
          SvcSaveItinerary(u, s, p, NoFault)
              => /\ last'.ok /\ last'.kind = "real"
                 /\ last'.id \in DOMAIN userItins'[u]
                 /\ last'.id \notin DOMAIN userItins[u]
                 /\ \A v \in UserIds \ {u} : userItins'[v] = userItins[v]
                 /\ sessItins' = sessItins
                 /\ sessions' = sessions]_vars

\* A save under a user has succeeded while the only session there is has
\* expired.
C21_Witness ==
    /\ last.op = "save_itinerary" /\ last.ok /\ last.kind = "real"
    /\ \E u \in UserIds : last.id \in DOMAIN userItins[u]
    /\ \A s \in SessionIds :
          /\ s \in DOMAIN sessions
          /\ IsSessionValid(s) = <<FALSE, "Session has expired">>
          /\ sessItins[s] = <<>>

\* ------------------------------------------- validate_itinerary_structure
\* validate_itinerary_structure applied to a parsed document.
ValidateStructure(data) ==
    /\ plan.pc = "idle"
    /\ plan' = [pc |-> "validated", data |-> data,
                validation |-> ValidateItineraryStructure(data)]
    /\ UNCHANGED <<now, sessions, sessItins, userItins, nextId, nextSess, using_mock,
                   last, tasks, adjust>>

NextValidate ==
    /\ plan.pc = "idle"
    /\ \E d \in {x \in ModelDocuments : x.kind = "dict"} : ValidateStructure(d.val)

SpecValidate == InitService /\ [][NextValidate]_vars

\* Every day of a days list has a dayIndex and an activities list.
DaysWellFormed(days) ==
    \A i \in DOMAIN days : {"dayIndex", "activities"} \subseteq DOMAIN days[i]

\* C22: the validator of the model client reports valid = true exactly when
\* the five top-level fields are present, input has destination and numDays,
\* days is a list and every day has a dayIndex and an activities list.
C22_ValidIffWellFormed ==
    (plan.pc = "validated" /\ ~using_mock)
        => (plan.validation.valid
              <=> /\ RequiredFields \subseteq DOMAIN plan.data
                  /\ InputRequired \subseteq DOMAIN plan.data.input
                  /\ plan.data.days.kind = "list"
                  /\ DaysWellFormed(plan.data.days.val))

\* C23: whenever the model output parsed to an itinerary object,
\* generate_itinerary returns an itinerary: the repair step does not raise,
\* whatever days is (missing, null, a list), and unrepaired gaps do not block
\* the answer.
C23_RepairNeverRaises ==
    (/\ plan.pc = "generated"
     /\ plan.response.success
     /\ ParseLlmResponse(plan.response).ok
     /\ ParseLlmResponse(plan.response).val.kind = "dict")
        => ~plan.outcome.raised

\* C24: an activity the model sent with a poiId or a poiSnapshot has the
\* same poiId and the same poiSnapshot (each present or absent as sent, with
\* the value sent) in the itinerary generate_itinerary returns.
C24_FallbackKeepsReferences ==
    (plan.pc = "generated" /\ ~plan.outcome.raised)
        => \A da \in Activities(plan.response.document.val) :
              LET before == ActivityAt(plan.response.document.val, da)
                  after == ActivityAt(plan.outcome.itinerary, da)
              IN  ("poiId" \in DOMAIN before \/ "poiSnapshot" \in DOMAIN before)
                    => \A key \in {"poiId", "poiSnapshot"} :
                          /\ key \in DOMAIN before <=> key \in DOMAIN after
                          /\ key \in DOMAIN before => after[key] = before[key]

\* ------------------------------------------ a store failure during migration
\* The copies of a failed migration taken back: the documents written so far
\* are deleted from the user's sub-collection.
UserColAfterFailedCopy_Rollback(col, migrated_ids) ==
    [n \in DOMAIN col \ {migrated_ids[k] : k \in 1..Len(migrated_ids)} |-> col[n]]

\* The user's sub-collection when the set() of a copy raises: the loop is
\* left by the exception, nothing undoes the copies written before.
UserColAfterFailedCopy(col, migrated_ids) == col

\* One turn of the loop in which user_ref...document(new_id).set(data)
\* raises: migrate_session_to_user is left by the exception (the mark of the
\* session is not reached) and AuthService.migrate_session_data answers
\* {"migrated": False, "error": ...}.
MigrateCopyFails(t) ==
    /\ tasks[t].pc = "copy"
    /\ tasks[t].pending # {}
    /\ userItins' = [userItins EXCEPT ![tasks[t].uid] =
            UserColAfterFailedCopy(@, tasks[t].migrated_ids)]
    /\ tasks' = [tasks EXCEPT ![t] =
            [pc |-> "failed", sid |-> @.sid, uid |-> @.uid,
             session_snap |-> @.session_snap, itineraries |-> @.itineraries,
             pending |-> @.pending, migrated_ids |-> @.migrated_ids]]
    /\ last' = Result("migrate_session_to_user", FALSE, 0, "none", 0, "error")
    /\ UNCHANGED <<now, sessions, sessItins, nextId, nextSess, using_mock, adjust, plan>>

\* Migrations during which the store may fail.
NextMigrateFault ==
    \/ \E g \in GeoHints : CreateSession(g)
    \/ \E s \in SessionIds, p \in Payloads :
          Fits(FewDocs, IsSessionValid(s)[1]) /\ SaveItineraryForSession(s, p)
    \/ \E t \in TaskIds, s \in SessionIds, u \in UserIds : MigrateBegin(t, s, u)
    \/ \E t \in TaskIds : MigrateStream(t)
    \/ \E t \in TaskIds : MigrateCopy(t)
    \/ \E t \in TaskIds : MigrateCopyFails(t)
    \/ \E t \in TaskIds : MigrateMark(t)

SpecMigrateFault == Init /\ [][NextMigrateFault]_vars

\* C25: when the write of the k-th copy fails, the k-1 copies written before
\* stay under the user, the session's itineraries are as they were, the
\* session document is not marked (it is unchanged) and the call fails.
C25_NoRollbackOnFailure ==
    [][\A t \in TaskIds :
          MigrateCopyFails(t)
              => /\ \A k \in 1..Len(tasks[t].migrated_ids) :
                       /\ tasks[t].migrated_ids[k] \in DOMAIN userItins'[tasks[t].uid]
                       /\ userItins'[tasks[t].uid][tasks[t].migrated_ids[k]]
                              = userItins[tasks[t].uid][tasks[t].migrated_ids[k]]
                 /\ sessItins' = sessItins
                 /\ sessions' = sessions
                 /\ ~last'.ok]_vars

\* The second of two copies failed: one copy is under the user, one document
\* was still to copy, and the session is unmarked.
C25_Witness ==
    \E t \in TaskIds :
        /\ tasks[t].pc = "failed"
        /\ Len(tasks[t].migrated_ids) = 1
        /\ Cardinality(tasks[t].pending) = 1
        /\ tasks[t].migrated_ids[1] \in DOMAIN userItins[tasks[t].uid]
        /\ sessions[tasks[t].sid].migratedTo = None
        /\ Cardinality(DOMAIN sessItins[tasks[t].sid]) = 2

\* ------------------------------------------------ replaces served concurrently
\* replace_itinerary_for_user / _for_session run as two calls on the store,
\* doc_ref.get() and doc_ref.set(), so the calls of two requests interleave.
\* A task holds the arguments of one replace and the createdAt it read.

\* Payloads a client may replace an itinerary with; one has a key of its own.
ReplacePayloads == Payloads \cup {[body |-> "C", notes |-> "n"]}

\* The owner's itineraries sub-collection a task works on.
OwnerCol(task) == IF task.owner = "user" THEN userItins[task.uid] ELSE sessItins[task.sid]

\* doc_ref.get() and the createdAt taken from the snapshot.
ReplaceGet(t, owner, uid, session_id, itinerary_id, itinerary_data) ==
    /\ tasks[t].pc = "idle"
    /\ itinerary_id \in KnownIds
    /\ LET col == IF owner = "user" THEN userItins[uid] ELSE sessItins[session_id]
           exists == itinerary_id \in DOMAIN col
       IN tasks' = [tasks EXCEPT ![t] =
              [pc |-> "set", owner |-> owner, uid |-> uid, sid |-> session_id,
               itinerary_id |-> itinerary_id, itinerary_data |-> itinerary_data,
               exists |-> exists,
               created_at |-> IF exists THEN col[itinerary_id].createdAt ELSE 0]]
    /\ UNCHANGED <<now, sessions, sessItins, userItins, nextId, nextSess, using_mock,
                   adjust, plan, last>>

\* The dict handed to doc_ref.set(): the payload under the three keys the
\* gateway sets, createdAt being the one read before (the server's time when
\* there was no document).
ReplacementDoc(task) ==
    [itineraryId |-> task.itinerary_id,
     createdAt |-> IF task.exists THEN task.created_at ELSE now,
     updatedAt |-> now] @@ task.itinerary_data

\* set(..., merge=True): the keys of the stored document that the new dict
\* lacks are kept.
StoredAfterSet_Merge(col, itinerary_id, doc) ==
    IF itinerary_id \in DOMAIN col THEN doc @@ col[itinerary_id] ELSE doc

\* doc_ref.set(doc): the stored document is overwritten as a whole.
StoredAfterSet(col, itinerary_id, doc) == doc

\* doc_ref.set() and the return of the call.
ReplaceSet(t) ==
    /\ tasks[t].pc = "set"
    /\ tasks[t].itinerary_id \in DOMAIN OwnerCol(tasks[t]) \/ TotalDocs < FewDocs
    /\ LET task == tasks[t]
           stored == StoredAfterSet(OwnerCol(task), task.itinerary_id, ReplacementDoc(task))
       IN IF task.owner = "user"
          THEN /\ userItins' = [userItins EXCEPT ![task.uid] =
                       (task.itinerary_id :> stored) @@ @]
               /\ UNCHANGED sessItins
          ELSE /\ sessItins' = [sessItins EXCEPT ![task.sid] =
                       (task.itinerary_id :> stored) @@ @]
               /\ UNCHANGED userItins
    /\ tasks' = [tasks EXCEPT ![t].pc = "replaced"]
    /\ last' = Result(IF tasks[t].owner = "user" THEN "replace_itinerary_for_user"
                      ELSE "replace_itinerary_for_session",
                      TRUE, tasks[t].itinerary_id, "real", 0, "")
    /\ UNCHANGED <<now, sessions, nextId, nextSess, using_mock, adjust, plan>>

NextReplaceConc ==
    \/ Tick(ShortTime)
    \/ \E g \in GeoHints : CreateSession(g)
    \/ \E u \in UserIds, p \in Payloads : Fits(OneDoc, TRUE) /\ SaveItineraryForUser(u, p)
    \/ \E s \in SessionIds, p \in Payloads :
          Fits(OneDoc, IsSessionValid(s)[1]) /\ SaveItineraryForSession(s, p)
    \/ \E t \in TaskIds, u \in UserIds, i \in ItinIds, p \in ReplacePayloads :
          ReplaceGet(t, "user", u, 0, i, p)
    \/ \E t \in TaskIds, s \in SessionIds, i \in ItinIds, p \in ReplacePayloads :
          ReplaceGet(t, "session", None, s, i, p)
    \/ \E t \in TaskIds : ReplaceSet(t)

SpecReplaceConc == Init /\ [][NextReplaceConc]_vars

\* Two tasks that replace the same document of the same owner.
SameTarget(t1, t2) ==
    /\ tasks[t1].owner = tasks[t2].owner
    /\ tasks[t1].uid = tasks[t2].uid
    /\ tasks[t1].sid = tasks[t2].sid
    /\ tasks[t1].itinerary_id = tasks[t2].itinerary_id

\* The fields of a document or payload other than the three keys the gateway
\* sets on a replace, with their values.
ReplacedFields(doc) ==
    [k \in DOMAIN doc \ {"itineraryId", "createdAt", "updatedAt"} |-> doc[k]]

\* C26: once two interleaved replaces of the same existing document have
\* both returned, the stored document has the payload fields of one of the
\* two calls and no others, its itineraryId is the document's id and its
\* createdAt is the one both calls read.
C26_LastWriteWins ==
    \A t1, t2 \in TaskIds :
        (/\ t1 # t2
         /\ tasks[t1].pc = "replaced" /\ tasks[t2].pc = "replaced"
         /\ SameTarget(t1, t2)
         /\ tasks[t1].exists /\ tasks[t2].exists)
            => LET i == tasks[t1].itinerary_id
                   doc == OwnerCol(tasks[t1])[i]
               IN /\ \E t \in {t1, t2} :
                        ReplacedFields(doc) = ReplacedFields(tasks[t].itinerary_data)
                  /\ doc.itineraryId = i
                  /\ doc.createdAt = tasks[t1].created_at
                  /\ doc.createdAt = tasks[t2].created_at

\* Two replaces of a document saved earlier interleaved (both read before
\* either wrote), with different payloads, one of them carrying notes; both
\* have returned.
C26_Witness ==
    \E t1, t2 \in TaskIds :
        /\ t1 # t2
        /\ tasks[t1].pc = "replaced" /\ tasks[t2].pc = "replaced"
        /\ SameTarget(t1, t2)
        /\ tasks[t1].exists /\ tasks[t2].exists
        /\ tasks[t1].itinerary_data.body = "C" /\ tasks[t2].itinerary_data.body = "B"
        /\ OwnerCol(tasks[t1])[tasks[t1].itinerary_id].body = "B"
        /\ OwnerCol(tasks[t1])[tasks[t1].itinerary_id].createdAt < now

\* ------------------------------------------------ adjust_itinerary (POST /smartadjust)
\* `await agent.adjust_itinerary(...)`: the method is a plain def, so the call
\* runs to its end and `await` is then applied to what it returned, a dict,
\* which raises TypeError.
AwaitRaises(result) == ~result.raised

\* The collection the handler would persist under: the user's when the token
\* names one, else the session's.
AdjustOwnerCol(user_id, session_id) ==
    IF TruthyUser(user_id) THEN userItins[user_id]
    ELSE IF TruthySession(session_id) THEN sessItins[session_id]
    ELSE <<>>

\* The /smartadjust handler, for a request SmartAdjustRequest accepted.
SmartAdjust(user_id, session_id, current_itinerary, response) ==
    LET auto == AutoSession(user_id, session_id)
        result == AdjustOutcome(current_itinerary, response)
        exc == IF result.raised THEN "RuntimeError"
               ELSE IF AwaitRaises(result) THEN "TypeError"
               ELSE ""
        v == IsSessionValid(session_id)
        saves_user == exc = "" /\ TruthyUser(user_id)
        saves_session == exc = "" /\ ~TruthyUser(user_id) /\ ~auto /\ v[1]
        http == IF exc = "" /\ (saves_user \/ saves_session)
                THEN PlanSuccess(nextId, "real", result.value.val)
                ELSE IF exc = "" THEN InvalidRequest
                ELSE InternalError
    IN  /\ adjust.pc = "idle"
        /\ auto => nextSess <= MaxSessions
        /\ IF auto
           THEN /\ sessions' = (nextSess :> NewSessionDoc(nextSess, None)) @@ sessions
                /\ nextSess' = nextSess + 1
           ELSE UNCHANGED <<sessions, nextSess>>
        /\ IF saves_user
           THEN /\ userItins' = [userItins EXCEPT ![user_id] =
                        (nextId :> SavedDoc(result.value.val, nextId)) @@ @]
                /\ nextId' = nextId + 1
                /\ UNCHANGED sessItins
           ELSE IF saves_session
           THEN /\ sessItins' = [sessItins EXCEPT ![session_id] =
                        SessionColAfterSave(@, result.value.val, nextId)]
                /\ nextId' = nextId + 1
                /\ UNCHANGED userItins
           ELSE UNCHANGED <<sessItins, userItins, nextId>>
        /\ adjust' = [pc |-> "answered", uid |-> user_id, sid |-> session_id,
                      current_itinerary |-> current_itinerary, response |-> response,
                      result |-> result, http |-> http]
        /\ UNCHANGED <<now, using_mock, last, tasks, plan>>

\* What the model client answers to the adjustment prompt: a failure, an
\* itinerary object, prose.
HandlerResponses ==
    { FailedResponse,
      [success |-> TRUE, content |-> <<"{", "days", "}">>],
      [success |-> TRUE, content |-> <<"x">>] }

NextSmartAdjust ==
    \/ /\ adjust.pc = "idle"
       /\ Tick(ShortTime)
    \/ /\ adjust.pc = "idle"
       /\ \E g \in GeoHints : CreateSession(g)
    \/ /\ adjust.pc = "idle"
       /\ \E u \in UserIds, p \in Payloads : Fits(OneDoc, TRUE) /\ SaveItineraryForUser(u, p)
    \/ /\ adjust.pc = "idle"
       /\ \E s \in SessionIds, p \in Payloads :
             Fits(OneDoc, IsSessionValid(s)[1]) /\ SaveItineraryForSession(s, p)
    \/ /\ adjust.pc = "idle"
       /\ \E u \in UserIds \cup {None}, s \in SessionIds \cup {0},
             c \in CurrentItineraries, r \in HandlerResponses : SmartAdjust(u, s, c, r)

SpecSmartAdjust == Init /\ [][NextSmartAdjust]_vars

\* C27: when the adjustment of an itinerary of an owner succeeded, the
\* /smartadjust flow persists the result in place: the owner's sub-collection
\* holds the same itineraryIds as before, every document keeps its
\* itineraryId and createdAt, and one of them now holds the adjusted
\* itinerary.
C27_AdjustPersistsInPlace ==
    [][\A u \in UserIds \cup {None}, s \in SessionIds \cup {0},
          c \in CurrentItineraries, r \in HandlerResponses :
          (/\ SmartAdjust(u, s, c, r)
           /\ ~AdjustOutcome(c, r).raised
           /\ AdjustOwnerCol(u, s) # <<>>)
              => LET before == AdjustOwnerCol(u, s)
                     after == AdjustOwnerCol(u, s)'
                 IN /\ DOMAIN after = DOMAIN before
                    /\ \A x \in DOMAIN before :
                          /\ after[x].itineraryId = x
                          /\ after[x].createdAt = before[x].createdAt
                    /\ \E x \in DOMAIN before :
                          ReplacedFields(after[x]) = AdjustOutcome(c, r).value.val]_vars

\* A plan_trip step for a request with neither a user nor a sessionId, during
\* which the store answered and the itinerary was generated.
AnonymousPlanStep ==
    /\ plan.pc = "accepted"
    /\ plan'.pc = "done"
    /\ AutoSession(plan.uid, plan.request.sessionId)
    /\ plan'.fault = NoFault
    /\ ~PlanGenerate(plan.request, plan'.response).raised

\* C28: a plan request with neither a user nor a sessionId gets a new
\* session, valid and expiring TTL hours later, and the generated itinerary
\* is stored under that session's itineraries, under the id answered.
C28_AutoSessionOwnsItinerary ==
    [][AnonymousPlanStep
          => /\ nextSess \notin DOMAIN sessions
             /\ nextSess \in DOMAIN sessions'
             /\ sessions'[nextSess].expiresAt = now + TTL
             /\ plan'.http.status = 200
             /\ plan'.http.kind = "real"
             /\ plan'.http.id \in DOMAIN sessItins'[nextSess]
             /\ plan'.http.id \notin DOMAIN sessItins[nextSess]]_vars

\* ------------------------------------------------------- expired sessions
\* Every gateway operation that names a session, under a running clock.
NextExpiry ==
    \/ Tick(MaxTime)
    \/ \E g \in GeoHints : CreateSession(g)
    \/ \E s \in SessionIds, e \in BOOLEAN : TouchSession(s, e)
    \/ \E s \in SessionIds, p \in Payloads :
          Fits(OneDoc, IsSessionValid(s)[1]) /\ SaveItineraryForSession(s, p)
    \/ \E s \in SessionIds, i \in ItinIds, p \in Payloads :
          Fits(OneDoc, i \notin DOMAIN sessItins[s]) /\ ReplaceItineraryForSession(s, i, p)
    \/ \E s \in SessionIds, u \in UserIds :
          Fits(FewDocs, sessItins[s] # <<>>) /\ MigrateSessionToUser(s, u)

SpecExpiry == Init /\ [][NextExpiry]_vars

\* The clock has passed the session's expiresAt.
Expired(s) == s \in DOMAIN sessions /\ sessions[s].expiresAt < now

\* C29: a session that has expired is not valid after any step (tick,
\* create, touch, save, replace, migrate); a touch of a session that is not
\* valid (expired or missing) raises and leaves the session documents as
\* they were.
C29_ExpiredStaysExpired ==
    [][\A s \in SessionIds :
          /\ Expired(s) => ~(IsSessionValid(s)[1])'
          /\ \A e \in BOOLEAN :
                (~IsSessionValid(s)[1] /\ TouchSession(s, e))
                    => (~last'.ok /\ sessions' = sessions)]_vars

\* A touch of a session that expired and was then migrated has just been
\* refused; the session still has the expiresAt create_session gave it.
C29_Witness ==
    \E s \in DOMAIN sessions :
        /\ Expired(s)
        /\ sessions[s].migratedTo # None
        /\ sessions[s].migratedAt > sessions[s].expiresAt
        /\ sessions[s].expiresAt = sessions[s].createdAt + TTL
        /\ last.op = "touch_session"
        /\ ~last.ok
        /\ last.reason = "Session has expired"

\* ------------------------------------------------- identity of stored documents
\* Every gateway operation that writes an itinerary document.
NextIdentity ==
    \/ Tick(ShortTime)
    \/ \E g \in GeoHints : CreateSession(g)
    \/ \E u \in UserIds, p \in Payloads : Fits(FewDocs, TRUE) /\ SaveItineraryForUser(u, p)
    \/ \E s \in SessionIds, p \in Payloads :
          Fits(FewDocs, IsSessionValid(s)[1]) /\ SaveItineraryForSession(s, p)
    \/ \E u \in UserIds, i \in ItinIds, p \in Payloads :
          Fits(FewDocs, i \notin DOMAIN userItins[u]) /\ ReplaceItineraryForUser(u, i, p)
    \/ \E s \in SessionIds, i \in ItinIds, p \in Payloads :
          Fits(FewDocs, i \notin DOMAIN sessItins[s]) /\ ReplaceItineraryForSession(s, i, p)
    \/ \E s \in SessionIds, u \in UserIds :
          Fits(FewDocs, sessItins[s] # <<>>) /\ MigrateSessionToUser(s, u)

SpecIdentity == Init /\ [][NextIdentity]_vars

\* C30: every itinerary document in the store, under a user or a session,
\* has an itineraryId field equal to the key it is stored under, whatever
\* itineraryId the payload carried.
C30_ItineraryIdIsKey ==
    /\ \A u \in UserIds : \A i \in DOMAIN userItins[u] :
          /\ "itineraryId" \in DOMAIN userItins[u][i]
          /\ userItins[u][i].itineraryId = i
    /\ \A s \in SessionIds : \A i \in DOMAIN sessItins[s] :
          /\ "itineraryId" \in DOMAIN sessItins[s][i]
          /\ sessItins[s][i].itineraryId = i

\* A session's document was replaced with the payload that carries an
\* itineraryId of its own and then migrated: the original and the copy
\* each carry their own key.
C30_Witness ==
    \E s \in SessionIds, u \in UserIds :
        \E i \in DOMAIN sessItins[s], j \in DOMAIN userItins[u] :
            /\ sessItins[s][i].body = "B"
            /\ sessItins[s][i].updatedAt > sessItins[s][i].createdAt
            /\ j \in FromSession(u, s)
            /\ userItins[u][j].body = "B"
            /\ i # j
            /\ userItins[u][j].itineraryId = j
            /\ sessItins[s][i].itineraryId = i
====
